---- MODULE Spec2Model ----
(***************************************************************************)
(* A model of the kate-native addon (packages/kate-native/src):            *)
(*   - QtRunner: the process-wide Qt runtime thread, its mutex, the        *)
(*     running flag and the application pointer (qt_runner.cpp);           *)
(*   - DocumentWrapper: the constructor, the guards on m_document, and     *)
(*     Search / ReplaceAll, the coordinate-taking handlers, the tokens,    *)
(*     the folding regions and the indentation over a line-addressed       *)
(*     buffer (document_wrapper.cpp).                                      *)
(* Threads interleave at the granularity of the statements of              *)
(* qt_runner.cpp; memory is sequentially consistent.                       *)
(***************************************************************************)
EXTENDS Integers, Sequences, FiniteSets, TLC

\* ------------------------------------------------------------------ bounds
\* Runtime threads that Initialize may start during one run.
MaxStarts == 2
\* Longest line of the enumerated buffers; patterns are one shorter.
MaxLen == 3

\* Thread 1 is the JS host thread, thread 2 another thread calling the bridge.
Callers == {1, 2}
Threads == 1..MaxStarts
HostThread == 1

VARIABLES
    g_app,          \* 0 = nullptr, t = the QCoreApplication made by runtime thread t
    g_qtThread,     \* 0 = not joinable, t = the std::thread object holds thread t
    g_qtMutex,      \* 0 = free, c = held by caller c
    g_qtRunning,    \* the running flag
    rt,             \* rt[t]: position of runtime thread t in the lambda of Initialize
    timerArmed,     \* the 10ms QTimer is started
    quitFlag,       \* the event loop was asked to exit
    startLog,       \* what the latest runtime thread has done so far, in order
    shutdownSeen,   \* some Shutdown found the runtime running
    pc,             \* pc[c]: position of caller c
    ctor,           \* the host thread is inside DocumentWrapper's constructor
    ret,            \* ret[c]: what caller c's latest bridge call returned and saw
    m_document,     \* "unset" (no wrapper yet), "null" or "doc"
    buf,            \* the document's lines, each a sequence of characters
    ra,             \* the ReplaceAll call in progress on the host thread
    lastOp,         \* the latest document operation and what it returned
    scan,           \* the literal scan of Search in progress on the host thread
    tickSaw         \* what the latest drain of the event queue ran against

rtVars == <<g_app, g_qtThread, g_qtRunning, rt, timerArmed, quitFlag, startLog>>
docVars == <<m_document, buf, ra, lastOp, scan, tickSaw>>
vars == <<g_app, g_qtThread, g_qtMutex, g_qtRunning, rt, timerArmed, quitFlag, startLog,
          shutdownSeen, pc, ctor, ret, m_document, buf, ra, lastOp, scan, tickSaw>>

\* ------------------------------------------------------------ QtRunner
\* Runtime threads that have been started and not joined.
Alive(rtv) == {t \in Threads : rtv[t] \notin {"unborn", "joined"}}
ThreadsStarted == Cardinality({t \in Threads : rt[t] # "unborn"})

NoRet == [op |-> "none", flag |-> FALSE, running |-> FALSE, app |-> 0, timer |-> FALSE,
          log |-> <<>>, live |-> {}, stops |-> FALSE]

\* What a caller can see of the runtime at the instant a bridge call returns.
\* flag: Initialize started the thread itself / Shutdown found nothing to stop /
\* the value IsRunning returned.
Returned(op, flag, rtv) ==
    [op |-> op, flag |-> flag, running |-> g_qtRunning, app |-> g_app,
     timer |-> timerArmed, log |-> startLog, live |-> Alive(rtv),
     stops |-> shutdownSeen]

\* std::lock_guard<std::mutex> lock(g_qtMutex): the caller proceeds once the mutex
\* is free (qt_runner.cpp:17, 58 and 74).
\* (mutant) Initialize without the lock_guard.
InitNoLock(c) == TRUE
InitLockAcquired(c) == g_qtMutex = 0
ShutdownLockAcquired(c) == g_qtMutex = 0
\* (mutant) IsRunning without the lock_guard.
IsRunningNoLock(c) == TRUE
IsRunningLockAcquired(c) == g_qtMutex = 0

\* qt_runner.cpp:16  a caller enters Initialize and blocks on the mutex.
InitCall(c) ==
    /\ pc[c] = "idle"
    /\ pc' = [pc EXCEPT ![c] = "init_lock"]
    /\ ret' = [ret EXCEPT ![c] = NoRet]
    /\ UNCHANGED <<scan, rtVars, g_qtMutex, shutdownSeen, ctor, docVars>>

\* Where a caller goes when Initialize returns: back to the constructor's body when
\* the call came from DocumentWrapper::DocumentWrapper (document_wrapper.cpp:81-83).
AfterInit(c) == IF c = HostThread /\ ctor THEN "ctor_create" ELSE "idle"

\* qt_runner.cpp:17-21  lock; already running: return.
InitAlready(c) ==
    /\ pc[c] = "init_lock"
    /\ InitLockAcquired(c)
    /\ g_qtRunning
    /\ pc' = [pc EXCEPT ![c] = AfterInit(c)]
    /\ ret' = [ret EXCEPT ![c] = Returned("Initialize", FALSE, rt)]
    /\ UNCHANGED <<scan, rtVars, g_qtMutex, shutdownSeen, ctor, docVars>>

\* qt_runner.cpp:17-24  lock; not running: start the runtime thread, keep the lock.
InitSpawn(c) ==
    /\ pc[c] = "init_lock"
    /\ InitLockAcquired(c)
    /\ ~g_qtRunning
    /\ ThreadsStarted < MaxStarts
    /\ rt' = [rt EXCEPT ![ThreadsStarted + 1] = "l26"]
    /\ g_qtThread' = ThreadsStarted + 1
    /\ g_qtMutex' = c
    /\ startLog' = <<>>
    /\ pc' = [pc EXCEPT ![c] = "init_wait"]
    /\ UNCHANGED <<g_app, g_qtRunning, timerArmed, quitFlag, shutdownSeen, ctor, ret,
                   docVars>>

\* qt_runner.cpp:52  while (!g_qtRunning) sleep: the condition that ends the wait.
\* (mutant) Initialize returns without waiting for the runtime thread.
NoWait == TRUE
WaitOver == g_qtRunning

\* qt_runner.cpp:52-55  the wait loop ends, Initialize returns (unlock).
InitWaitDone(c) ==
    /\ pc[c] = "init_wait"
    /\ WaitOver
    /\ g_qtMutex' = 0
    /\ pc' = [pc EXCEPT ![c] = AfterInit(c)]
    /\ ret' = [ret EXCEPT ![c] = Returned("Initialize", TRUE, rt)]
    /\ UNCHANGED <<rtVars, shutdownSeen, ctor, docVars>>

\* qt_runner.cpp:26-31  the runtime thread constructs the application object.
RtConstruct(t) ==
    /\ rt[t] = "l26"
    /\ g_app' = t
    /\ startLog' = Append(startLog, "app")
    /\ rt' = [rt EXCEPT ![t] = "l34"]
    /\ UNCHANGED <<g_qtThread, g_qtMutex, g_qtRunning, timerArmed, quitFlag,
                   shutdownSeen, pc, ctor, ret, docVars>>

\* qt_runner.cpp:31  the QCoreApplication constructor does not return (it blocks):
\* the thread never gets to line 40, and no code path reports it.
RtConstructFail(t) ==
    /\ rt[t] = "l26"
    /\ rt' = [rt EXCEPT ![t] = "failed"]
    /\ UNCHANGED <<g_app, g_qtThread, g_qtMutex, g_qtRunning, timerArmed, quitFlag,
                   startLog, shutdownSeen, pc, ctor, ret, docVars>>

\* qt_runner.cpp:34-38  create the timer, connect processEvents, start(10).
RtArmTimer(t) ==
    /\ rt[t] = "l34"
    /\ timerArmed' = TRUE
    /\ startLog' = Append(startLog, "timer")
    /\ rt' = [rt EXCEPT ![t] = "l40"]
    /\ UNCHANGED <<g_app, g_qtThread, g_qtMutex, g_qtRunning, quitFlag, shutdownSeen,
                   pc, ctor, ret, docVars>>

\* qt_runner.cpp:40  g_qtRunning = true.
RtPublish(t) ==
    /\ rt[t] = "l40"
    /\ g_qtRunning' = TRUE
    /\ startLog' = Append(startLog, "running")
    /\ rt' = [rt EXCEPT ![t] = "l43"]
    /\ UNCHANGED <<g_app, g_qtThread, g_qtMutex, timerArmed, quitFlag, shutdownSeen,
                   pc, ctor, ret, docVars>>

\* qt_runner.cpp:43  g_app->exec() is entered; a quit requested earlier is not
\* remembered by the event loop.
RtEnterExec(t) ==
    /\ rt[t] = "l43"
    /\ quitFlag' = FALSE
    /\ rt' = [rt EXCEPT ![t] = "exec"]
    /\ UNCHANGED <<g_app, g_qtThread, g_qtMutex, g_qtRunning, timerArmed, startLog,
                   shutdownSeen, pc, ctor, ret, docVars>>

\* qt_runner.cpp:43-45  exec() returns after quit(); delete timer.
RtExecReturn(t) ==
    /\ rt[t] = "exec"
    /\ quitFlag
    /\ timerArmed' = FALSE
    /\ rt' = [rt EXCEPT ![t] = "l46"]
    /\ UNCHANGED <<g_app, g_qtThread, g_qtMutex, g_qtRunning, quitFlag, startLog,
                   shutdownSeen, pc, ctor, ret, docVars>>

\* qt_runner.cpp:46-47  delete g_app; g_app = nullptr.
RtDeleteApp(t) ==
    /\ rt[t] = "l46"
    /\ g_app' = 0
    /\ rt' = [rt EXCEPT ![t] = "l48"]
    /\ UNCHANGED <<g_qtThread, g_qtMutex, g_qtRunning, timerArmed, quitFlag, startLog,
                   shutdownSeen, pc, ctor, ret, docVars>>

\* qt_runner.cpp:48-49  g_qtRunning = false; the thread function returns.
RtClearRunning(t) ==
    /\ rt[t] = "l48"
    /\ g_qtRunning' = FALSE
    /\ rt' = [rt EXCEPT ![t] = "done"]
    /\ UNCHANGED <<g_app, g_qtThread, g_qtMutex, timerArmed, quitFlag, startLog,
                   shutdownSeen, pc, ctor, ret, docVars>>

\* qt_runner.cpp:57  a caller enters Shutdown and blocks on the mutex.
ShutCall(c) ==
    /\ pc[c] = "idle"
    /\ pc' = [pc EXCEPT ![c] = "shut_lock"]
    /\ ret' = [ret EXCEPT ![c] = NoRet]
    /\ UNCHANGED <<scan, rtVars, g_qtMutex, shutdownSeen, ctor, docVars>>

\* qt_runner.cpp:58-62  lock; not running: return.
ShutNoop(c) ==
    /\ pc[c] = "shut_lock"
    /\ ShutdownLockAcquired(c)
    /\ ~g_qtRunning
    /\ pc' = [pc EXCEPT ![c] = "idle"]
    /\ ret' = [ret EXCEPT ![c] = Returned("Shutdown", TRUE, rt)]
    /\ UNCHANGED <<scan, rtVars, g_qtMutex, shutdownSeen, ctor, docVars>>

\* QCoreApplication::quit() as called at qt_runner.cpp:64-66: it stops the event
\* loop the application's thread is running, and does nothing when none is running.
QuitEffect == IF g_app # 0 /\ rt[g_app] = "exec" THEN TRUE ELSE quitFlag

\* qt_runner.cpp:58-68  lock; running: quit() if g_app, then join if joinable.
ShutQuit(c) ==
    /\ pc[c] = "shut_lock"
    /\ ShutdownLockAcquired(c)
    /\ g_qtRunning
    /\ g_qtThread # 0
    /\ g_qtMutex' = c
    /\ quitFlag' = QuitEffect
    /\ shutdownSeen' = TRUE
    /\ pc' = [pc EXCEPT ![c] = "shut_join"]
    /\ UNCHANGED <<g_app, g_qtThread, g_qtRunning, rt, timerArmed, startLog, ctor, ret,
                   docVars>>

\* std::thread::join (qt_runner.cpp:69) returns once the thread function has returned.
\* (mutant) detach() in place of join(): Shutdown does not wait for the thread.
JoinReturnsAtOnce(t) == TRUE
JoinReturns(t) == rt[t] = "done"

\* qt_runner.cpp:69-71  join() returns; Shutdown returns (unlock).
ShutJoin(c) ==
    /\ pc[c] = "shut_join"
    /\ JoinReturns(g_qtThread)
    /\ rt' = [rt EXCEPT ![g_qtThread] = "joined"]
    /\ g_qtThread' = 0
    /\ g_qtMutex' = 0
    /\ pc' = [pc EXCEPT ![c] = "idle"]
    /\ ret' = [ret EXCEPT ![c] = Returned("Shutdown", FALSE, rt')]
    /\ UNCHANGED <<g_app, g_qtRunning, timerArmed, quitFlag, startLog, shutdownSeen,
                   ctor, docVars>>

\* qt_runner.cpp:73  a caller enters IsRunning and blocks on the mutex.
IsRunCall(c) ==
    /\ pc[c] = "idle"
    /\ pc' = [pc EXCEPT ![c] = "isrun_lock"]
    /\ ret' = [ret EXCEPT ![c] = NoRet]
    /\ UNCHANGED <<scan, rtVars, g_qtMutex, shutdownSeen, ctor, docVars>>

\* qt_runner.cpp:74  lock_guard acquired.
IsRunAcquire(c) ==
    /\ pc[c] = "isrun_lock"
    /\ IsRunningLockAcquired(c)
    /\ g_qtMutex' = c
    /\ pc' = [pc EXCEPT ![c] = "isrun_held"]
    /\ UNCHANGED <<rtVars, shutdownSeen, ctor, ret, docVars>>

\* qt_runner.cpp:75-76  return g_qtRunning; unlock.  In the constructor
\* (document_wrapper.cpp:81-83) a false result leads to Initialize.
IsRunReturn(c) ==
    /\ pc[c] = "isrun_held"
    /\ g_qtMutex' = 0
    /\ ret' = [ret EXCEPT ![c] = Returned("IsRunning", g_qtRunning, rt)]
    /\ pc' = [pc EXCEPT ![c] =
                IF c = HostThread /\ ctor
                THEN (IF g_qtRunning THEN "ctor_create" ELSE "init_lock")
                ELSE "idle"]
    /\ UNCHANGED <<rtVars, shutdownSeen, ctor, docVars>>

\* ------------------------------------------------------- text and search
\* Characters are one-character strings; a line is a sequence of characters.
Letters == {"a", "A", "b", "f", "o", "r", "z"}
\* QChar::isLetterOrNumber (document_wrapper.cpp:559-561).
IsLetterOrNumber(ch) == ch \in Letters
\* Case folding as Qt::CaseInsensitive compares (document_wrapper.cpp:550).
Fold(ch) == IF ch = "A" THEN "a" ELSE ch
EqCh(x, y, cs) == IF cs THEN x = y ELSE Fold(x) = Fold(y)

Min(S) == CHOOSE x \in S : \A y \in S : x <= y

\* QString::indexOf(pat, from, cs): the first position >= from (0-based) where pat
\* occurs, -1 when there is none (document_wrapper.cpp:554).
IndexOf(text, pat, from, cs) ==
    LET cand == {p \in from..(Len(text) - Len(pat)) :
                    \A i \in 1..Len(pat) : EqCh(text[p + i], pat[i], cs)}
    IN IF cand = {} THEN -1 ELSE Min(cand)

\* One entry of the array Search returns (document_wrapper.cpp:568-572, 542-546).
Match(line, column, length, text) ==
    [line |-> line, column |-> column, length |-> length, text |-> text]

\* (mutant) the character before the candidate is not looked at.
WordStartUnchecked(lineText, pos) == TRUE
\* document_wrapper.cpp:559
IsWordStart(lineText, pos) == pos = 0 \/ ~IsLetterOrNumber(lineText[pos])
\* document_wrapper.cpp:560-561
IsWordEnd(lineText, pos, n) ==
    pos + n >= Len(lineText) \/ ~IsLetterOrNumber(lineText[pos + n + 1])

\* (mutant) the scan resumes at the rejected candidate.
StayAt(pos) == pos
\* document_wrapper.cpp:563  startPos after a rejected candidate.
AfterRejected(pos) == pos + 1
\* document_wrapper.cpp:575  startPos after an accepted match.
AfterAccepted(pos, n) == pos + 1

\* The literal scan of one line (document_wrapper.cpp:550-576).
RECURSIVE LiteralScan(_, _, _, _, _, _)
LiteralScan(lineText, pat, cs, ww, line, startPos) ==
    LET pos == IndexOf(lineText, pat, startPos, cs) IN
    IF pos < 0 THEN <<>>
    ELSE IF ww /\ (~IsWordStart(lineText, pos) \/ ~IsWordEnd(lineText, pos, Len(pat)))
    THEN LiteralScan(lineText, pat, cs, ww, line, AfterRejected(pos))
    ELSE <<Match(line, pos, Len(pat), pat)>>
         \o LiteralScan(lineText, pat, cs, ww, line, AfterAccepted(pos, Len(pat)))

\* QRegularExpression::globalMatch over one line (document_wrapper.cpp:537-548), for
\* patterns made of ordinary characters: the matches are the occurrences left to
\* right, each search resuming at the end of the previous match (one further after
\* an empty match); captured() is the line's own text.
RECURSIVE RegexScan(_, _, _, _, _)
RegexScan(lineText, pat, cs, line, from) ==
    LET pos == IndexOf(lineText, pat, from, cs) IN
    IF pos < 0 THEN <<>>
    ELSE <<Match(line, pos, Len(pat), SubSeq(lineText, pos + 1, pos + Len(pat)))>>
         \o RegexScan(lineText, pat, cs, line,
                      IF Len(pat) = 0 THEN pos + 1 ELSE pos + Len(pat))

\* document_wrapper.cpp:533-578  the loop over the lines, from `line` on.
RECURSIVE SearchLines(_, _, _, _)
SearchLines(b, pat, opts, line) ==
    IF line >= Len(b) THEN <<>>
    ELSE (IF opts.regex
          THEN RegexScan(b[line + 1], pat, opts.caseSensitive, line, 0)
          ELSE LiteralScan(b[line + 1], pat, opts.caseSensitive, opts.wholeWords, line, 0))
         \o SearchLines(b, pat, opts, line + 1)

\* Arguments as the handlers receive them (Napi::CallbackInfo).
DefaultOpts == [caseSensitive |-> FALSE, wholeWords |-> FALSE, regex |-> FALSE]
StrArg(s) == [type |-> "string", s |-> s, o |-> DefaultOpts]
ObjArg(o) == [type |-> "object", s |-> <<>>, o |-> o]
NumArg == [type |-> "number", s |-> <<>>, o |-> DefaultOpts]

\* document_wrapper.cpp:505-524  Search reads its options from info[1].
SearchOptions(info) ==
    IF Len(info) >= 2 /\ info[2].type = "object" THEN info[2].o ELSE DefaultOpts

Outcome(kind, msg, results) == [kind |-> kind, msg |-> msg, results |-> results]

\* DocumentWrapper::Search (document_wrapper.cpp:489-584) on document doc with
\* lines b.
Search(info, doc, b) ==
    IF doc = "null"
    THEN Outcome("TypeError", "Document not initialized", <<>>)
    ELSE IF Len(info) < 1 \/ info[1].type # "string"
    THEN Outcome("TypeError", "First argument must be a search string", <<>>)
    ELSE Outcome("value", "", SearchLines(b, info[1].s, SearchOptions(info), 0))

\* KTextEditor::Document::replaceText(Range(line, column, line, column + length), text)
\* as ReplaceAll calls it (document_wrapper.cpp:661-662), for a line of the document,
\* column >= 0, length >= 0 and a text without line breaks: the part of the span
\* that exists is removed, and the text is inserted at column, the line being padded
\* with spaces when it ends before column.  ok is the call's result.
ReplaceText(b, line, column, length, text) ==
    IF line < 0 \/ line >= Len(b) \/ column < 0 \/ length < 0
    THEN [ok |-> FALSE, buf |-> b]
    ELSE LET old == b[line + 1]
             cut == IF column >= Len(old) THEN old
                    ELSE SubSeq(old, 1, column)
                         \o SubSeq(old, column + length + 1, Len(old))
             pad == IF text # <<>> /\ column > Len(cut)
                    THEN [i \in 1..(column - Len(cut)) |-> " "] ELSE <<>>
             at == IF column > Len(cut) THEN Len(cut) ELSE column
             new == SubSeq(cut, 1, at) \o pad \o text \o SubSeq(cut, at + 1, Len(cut))
         IN [ok |-> TRUE, buf |-> [b EXCEPT ![line + 1] = new]]

\* ------------------------------------------------------- DocumentWrapper
NoOp == [op |-> "none", docNull |-> FALSE, kind |-> "", msg |-> "", value |-> "",
         arg |-> NumArg, repl |-> <<>>, opts |-> DefaultOpts, orig |-> <<>>,
         matches |-> <<>>, count |-> 0, held |-> TRUE,
         nums |-> <<>>, hl |-> <<>>, out |-> <<>>,
         folds |-> [at |-> <<>>, else |-> 0], hidden |-> {}, queried |-> {}]
NoScan == [pat |-> <<>>, opts |-> DefaultOpts, line |-> 0, startPos |-> 0,
           results |-> <<>>]
NoRa == [results |-> <<>>, i |-> 0, count |-> 0, repl |-> <<>>, held |-> TRUE,
         pat |-> <<>>, opts |-> DefaultOpts, orig |-> <<>>]

\* document_wrapper.cpp:76-83  new KateDocument(): the constructor first asks
\* QtRunner::IsRunning().
CtorCall ==
    /\ pc[HostThread] = "idle"
    /\ m_document = "unset"
    /\ ctor' = TRUE
    /\ pc' = [pc EXCEPT ![HostThread] = "isrun_lock"]
    /\ ret' = [ret EXCEPT ![HostThread] = NoRet]
    /\ UNCHANGED <<scan, rtVars, g_qtMutex, shutdownSeen, docVars>>

\* document_wrapper.cpp:86-93  m_document takes what createDocument returned (a new
\* document has one empty line).
CtorCreate ==
    /\ pc[HostThread] = "ctor_create"
    /\ \E d \in {"doc", "null"} : m_document' = d
    /\ buf' = << <<>> >>
    /\ ctor' = FALSE
    /\ pc' = [pc EXCEPT ![HostThread] = "idle"]
    /\ UNCHANGED <<scan, rtVars, g_qtMutex, shutdownSeen, ret, ra, lastOp, tickSaw>>

\* The handlers that throw Napi::Error("Document not initialized") when m_document
\* is null (document_wrapper.cpp:110, 131, 150, 172, 197, 282, 319, 336, 383, 448).
ErrorOps == {"getText", "setText", "line", "insertText", "removeText", "setMode",
             "openUrl", "saveUrl", "getSyntaxTokens", "getFoldingRegions"}
\* The handlers that throw Napi::TypeError("Document not initialized")
\* (document_wrapper.cpp:493, 590, 619, 679, 718, 760, 786).
TypeErrorOps == {"search", "replace", "replaceAll", "getIndentation", "setIndentation",
                 "indentLine", "indentLines"}
\* The handlers that return a value or nothing when m_document is null
\* (document_wrapper.cpp:220, 234, 248, 262, 297, 352, 365, 373).
DefaultOps == {"lineCount", "length", "isModified", "mode", "modes", "url", "undo",
               "redo"}
\* The handlers modelled by their m_document guard and, on a document, by what they
\* read of the buffer.
GuardedOps == (ErrorOps \cup TypeErrorOps \cup DefaultOps) \ {"search", "replaceAll", "setText"}
QueryOps == {"lineCount", "length", "getText", "isModified", "mode", "modes", "url"}

\* What each handler does when m_document is null.
NullOutcome(op) ==
    IF op \in ErrorOps THEN [kind |-> "Error", msg |-> "Document not initialized", value |-> "null"]
    ELSE IF op \in TypeErrorOps
    THEN [kind |-> "TypeError", msg |-> "Document not initialized",
          value |-> IF op = "replace" THEN "false"
                    ELSE IF op \in {"replaceAll", "getIndentation"} THEN "0"
                    ELSE IF op = "search" THEN "null" ELSE ""]
    ELSE IF op \in {"lineCount", "length"} THEN [kind |-> "value", msg |-> "", value |-> "0"]
    ELSE IF op = "isModified" THEN [kind |-> "value", msg |-> "", value |-> "false"]
    ELSE IF op \in {"mode", "url"} THEN [kind |-> "value", msg |-> "", value |-> ""]
    ELSE IF op = "modes" THEN [kind |-> "value", msg |-> "", value |-> "[]"]
    ELSE [kind |-> "void", msg |-> "", value |-> ""]

RECURSIVE TextLength(_)
\* m_document->text().length(): the characters of the lines and the breaks between.
TextLength(b) == IF Len(b) = 0 THEN 0
                 ELSE Len(b[1]) + (IF Len(b) > 1 THEN 1 + TextLength(Tail(b)) ELSE 0)

\* A handler without arguments of interest, called from the host thread.
GuardedOp(op) ==
    /\ pc[HostThread] = "idle"
    /\ m_document # "unset"
    /\ m_document = "doc" => op \in QueryOps
    /\ lastOp' =
         IF m_document = "null"
         THEN [NoOp EXCEPT !.op = op, !.docNull = TRUE, !.kind = NullOutcome(op).kind,
                           !.msg = NullOutcome(op).msg, !.value = NullOutcome(op).value,
                           !.orig = buf]
         ELSE [NoOp EXCEPT !.op = op, !.kind = "value", !.value = "m_document",
                           !.count = IF op = "lineCount" THEN Len(buf)
                                     ELSE IF op = "length" THEN TextLength(buf) ELSE 0,
                           !.orig = buf]
    /\ UNCHANGED <<scan, rtVars, g_qtMutex, shutdownSeen, pc, ctor, ret, m_document, buf, ra,
                   tickSaw>>

\* DocumentWrapper::SetText (document_wrapper.cpp:122-139) with a string argument
\* whose lines are text.
SetTextOp(text) ==
    /\ pc[HostThread] = "idle"
    /\ m_document # "unset"
    /\ IF m_document = "null"
       THEN /\ lastOp' = [NoOp EXCEPT !.op = "setText", !.docNull = TRUE, !.kind = "Error",
                                      !.msg = "Document not initialized", !.orig = buf]
            /\ buf' = buf
       ELSE /\ lastOp' = [NoOp EXCEPT !.op = "setText", !.kind = "void", !.orig = buf]
            /\ buf' = text
    /\ UNCHANGED <<scan, rtVars, g_qtMutex, shutdownSeen, pc, ctor, ret, m_document, ra, tickSaw>>

\* DocumentWrapper::Search called from JS as search(arg, opts).
SearchOp(arg, opts) ==
    /\ pc[HostThread] = "idle"
    /\ m_document # "unset"
    /\ LET r == Search(<<arg, ObjArg(opts)>>, m_document, buf) IN
       lastOp' = [NoOp EXCEPT !.op = "search", !.docNull = (m_document = "null"),
                              !.kind = r.kind, !.msg = r.msg, !.arg = arg, !.opts = opts,
                              !.value = IF r.kind = "value" THEN "array" ELSE "null",
                              !.orig = buf, !.matches = r.results,
                              !.count = Len(r.results)]
    /\ UNCHANGED <<scan, rtVars, g_qtMutex, shutdownSeen, pc, ctor, ret, m_document, buf, ra,
                   tickSaw>>

\* DocumentWrapper::Search (document_wrapper.cpp:489-533) called from JS as
\* search(pat, opts) without regex: the guards, the option parsing and the start of
\* the loop over the lines.
ScanBegin(pat, opts) ==
    /\ pc[HostThread] = "idle"
    /\ m_document # "unset"
    /\ ~opts.regex
    /\ IF m_document = "null"
       THEN /\ lastOp' = [NoOp EXCEPT !.op = "search", !.docNull = TRUE,
                                      !.kind = "TypeError",
                                      !.msg = "Document not initialized",
                                      !.value = "null", !.arg = StrArg(pat),
                                      !.opts = opts, !.orig = buf]
            /\ UNCHANGED <<pc, scan>>
       ELSE /\ scan' = [pat |-> pat,
                        opts |-> SearchOptions(<<StrArg(pat), ObjArg(opts)>>),
                        line |-> 0, startPos |-> 0, results |-> <<>>]
            /\ pc' = [pc EXCEPT ![HostThread] = "scan_loop"]
            /\ lastOp' = NoOp
    /\ UNCHANGED <<rtVars, g_qtMutex, shutdownSeen, ctor, ret, m_document, buf, ra,
                   tickSaw>>

\* document_wrapper.cpp:553-576  one pass of while (true) on the current line: no
\* candidate ends the line's scan (555), a rejected candidate moves startPos
\* (562-565), an accepted one is appended and moves startPos (568-575).
ScanStep ==
    /\ pc[HostThread] = "scan_loop"
    /\ scan.line < Len(buf)
    /\ LET lineText == buf[scan.line + 1]
           n == Len(scan.pat)
           pos == IndexOf(lineText, scan.pat, scan.startPos, scan.opts.caseSensitive)
       IN scan' =
            IF pos < 0
            THEN [scan EXCEPT !.line = scan.line + 1, !.startPos = 0]
            ELSE IF scan.opts.wholeWords
                    /\ (~IsWordStart(lineText, pos) \/ ~IsWordEnd(lineText, pos, n))
            THEN [scan EXCEPT !.startPos = AfterRejected(pos)]
            ELSE [scan EXCEPT !.startPos = AfterAccepted(pos, n),
                              !.results = Append(scan.results,
                                                 Match(scan.line, pos, n, scan.pat))]
    /\ UNCHANGED <<rtVars, g_qtMutex, shutdownSeen, pc, ctor, ret, m_document, buf, ra,
                   lastOp, tickSaw>>

\* document_wrapper.cpp:533, 580  the loop over the lines is over: return results.
ScanReturn ==
    /\ pc[HostThread] = "scan_loop"
    /\ scan.line >= Len(buf)
    /\ lastOp' = [NoOp EXCEPT !.op = "search", !.kind = "value", !.value = "array",
                              !.arg = StrArg(scan.pat), !.opts = scan.opts,
                              !.orig = buf, !.matches = scan.results,
                              !.count = Len(scan.results)]
    /\ scan' = NoScan
    /\ pc' = [pc EXCEPT ![HostThread] = "idle"]
    /\ UNCHANGED <<rtVars, g_qtMutex, shutdownSeen, ctor, ret, m_document, buf, ra,
                   tickSaw>>

\* document_wrapper.cpp:649  ReplaceAll hands its own arguments to Search.
ReplaceAllSearch(pat, repl, opts, doc, b) ==
    Search(<<StrArg(pat), StrArg(repl), ObjArg(opts)>>, doc, b)

\* DocumentWrapper::ReplaceAll (document_wrapper.cpp:615-652) called from JS as
\* replaceAll(pat, repl, opts): the guards, the search, and the loop's start.
RaBegin(pat, repl, opts) ==
    /\ pc[HostThread] = "idle"
    /\ m_document # "unset"
    /\ IF m_document = "null"
       THEN /\ lastOp' = [NoOp EXCEPT !.op = "replaceAll", !.docNull = TRUE,
                                      !.kind = "TypeError",
                                      !.msg = "Document not initialized", !.value = "0",
                                      !.arg = StrArg(pat), !.repl = repl, !.opts = opts,
                                      !.orig = buf]
            /\ UNCHANGED <<pc, ra>>
       ELSE /\ LET r == ReplaceAllSearch(pat, repl, opts, m_document, buf) IN
               ra' = [results |-> r.results, i |-> Len(r.results), count |-> 0,
                      repl |-> repl, held |-> TRUE, pat |-> pat, opts |-> opts,
                      orig |-> buf]
            /\ pc' = [pc EXCEPT ![HostThread] = "ra_loop"]
            /\ lastOp' = NoOp
    /\ UNCHANGED <<scan, rtVars, g_qtMutex, shutdownSeen, ctor, ret, m_document, buf, tickSaw>>

\* Whether the span of match m still holds, in b, the text it held in orig.
SpanHeld(b, orig, m) ==
    /\ m.column + m.length <= Len(b[m.line + 1])
    /\ SubSeq(b[m.line + 1], m.column + 1, m.column + m.length)
         = SubSeq(orig[m.line + 1], m.column + 1, m.column + m.length)

\* document_wrapper.cpp:655  for (i = results.Length() - 1; i >= 0; i--): the index
\* of the match the loop takes next, given how many are left.
NextMatch(left) == left

\* document_wrapper.cpp:655-665  one pass of the loop: replace one match.
RaStep ==
    /\ pc[HostThread] = "ra_loop"
    /\ ra.i >= 1
    /\ LET m == ra.results[NextMatch(ra.i)]
           r == ReplaceText(buf, m.line, m.column, m.length, ra.repl)
       IN /\ buf' = r.buf
          /\ ra' = [ra EXCEPT !.i = ra.i - 1,
                              !.count = IF r.ok THEN ra.count + 1 ELSE ra.count,
                              !.held = ra.held /\ SpanHeld(buf, ra.orig, m)]
    /\ UNCHANGED <<scan, rtVars, g_qtMutex, shutdownSeen, pc, ctor, ret, m_document, lastOp,
                   tickSaw>>

\* document_wrapper.cpp:667  the loop is over: return replacedCount.
RaReturn ==
    /\ pc[HostThread] = "ra_loop"
    /\ ra.i = 0
    /\ lastOp' = [NoOp EXCEPT !.op = "replaceAll", !.kind = "value", !.value = "count",
                              !.arg = StrArg(ra.pat), !.repl = ra.repl, !.opts = ra.opts,
                              !.orig = ra.orig, !.matches = ra.results,
                              !.count = ra.count, !.held = ra.held]
    /\ ra' = NoRa
    /\ pc' = [pc EXCEPT ![HostThread] = "idle"]
    /\ UNCHANGED <<scan, rtVars, g_qtMutex, shutdownSeen, ctor, ret, m_document, buf, tickSaw>>

\* The host thread is between two steps of a mutation of the buffer.
MidMutation ==
    pc[HostThread] = "ra_loop" /\ 0 < ra.i /\ ra.i < Len(ra.results)

\* qt_runner.cpp:35-38  the timer fires in the event loop: processEvents().
Tick(t) ==
    /\ rt[t] = "exec"
    /\ timerArmed
    /\ tickSaw' = IF MidMutation THEN "partial" ELSE "whole"
    /\ UNCHANGED <<scan, rtVars, g_qtMutex, shutdownSeen, pc, ctor, ret, m_document, buf, ra,
                   lastOp>>

\* QtRunner::ProcessEvents (qt_runner.cpp:78-82) called from a thread that is in no
\* other call.
ProcessEvents(c) ==
    /\ pc[c] = "idle"
    /\ g_app # 0 /\ g_qtRunning
    /\ tickSaw' = IF MidMutation THEN "partial" ELSE "whole"
    /\ UNCHANGED <<scan, rtVars, g_qtMutex, shutdownSeen, pc, ctor, ret, m_document, buf, ra,
                   lastOp>>

\* ------------------------------------------------------------ tokens
\* document_wrapper.cpp:400  const int MAX_SCAN_LENGTH
MAX_SCAN_LENGTH == 10000
\* document_wrapper.cpp:416  the longest run one token covers: (endCol - startCol) < 1000
RunLimit == 1000

\* m_document->line(line): the text of the line, empty for a line the document
\* does not have (document_wrapper.cpp:404, 156, 695, 735).
LineOf(b, line) == IF line < 0 \/ line >= Len(b) THEN <<>> ELSE b[line + 1]

\* m_document->attributeAt(Cursor(line, col)) (document_wrapper.cpp:409, 417): the
\* highlighting hl gives every column of every line an attribute, "" standing for
\* the null pointer.
AttributeAt(hl, line, col) == hl[line + 1][col + 1]

\* document_wrapper.cpp:429  attr ? attr->name() : "text"
TokenType(attr) == IF attr = "" THEN "text" ELSE attr

\* (mutant) the whole line is scanned.
WholeLength(lineText) == Len(lineText)
\* document_wrapper.cpp:405  qMin(lineText.length(), MAX_SCAN_LENGTH)
ScanLength(lineText) ==
    IF Len(lineText) < MAX_SCAN_LENGTH THEN Len(lineText) ELSE MAX_SCAN_LENGTH

\* (mutant) a run is extended to the end of the scanned part.
RunUncapped(startCol, lineLength) == lineLength
\* document_wrapper.cpp:416  endCol < lineLength && (endCol - startCol) < 1000: the
\* column at which the extension stops at the latest.
RunCap(startCol, lineLength) ==
    IF startCol + RunLimit < lineLength THEN startCol + RunLimit ELSE lineLength

\* document_wrapper.cpp:412-420  endCol when the while loop is left: the first
\* column after startCol that is the cap or carries another attribute.
RunEnd(hl, line, startCol, lineLength) ==
    Min({e \in (startCol + 1)..RunCap(startCol, lineLength) :
            \/ e = RunCap(startCol, lineLength)
            \/ AttributeAt(hl, line, e) # AttributeAt(hl, line, startCol)})

\* document_wrapper.cpp:423-426, 430
Token(line, startCol, endCol, tokenType) ==
    [line |-> line, startColumn |-> startCol, endColumn |-> endCol,
     tokenType |-> tokenType]

\* document_wrapper.cpp:408-434  the loop over the columns of one line, from col on.
RECURSIVE LineTokens(_, _, _, _)
LineTokens(hl, line, lineLength, col) ==
    IF col >= lineLength THEN <<>>
    ELSE LET endCol == RunEnd(hl, line, col, lineLength) IN
         <<Token(line, col, endCol, TokenType(AttributeAt(hl, line, col)))>>
         \o LineTokens(hl, line, lineLength, endCol)

\* document_wrapper.cpp:403-435  the loop over the lines, from line on.
RECURSIVE TokensFrom(_, _, _, _)
TokensFrom(b, hl, line, lineEnd) ==
    IF line > lineEnd \/ line >= Len(b) THEN <<>>
    ELSE LineTokens(hl, line, ScanLength(LineOf(b, line)), 0)
         \o TokensFrom(b, hl, line + 1, lineEnd)

\* DocumentWrapper::GetSyntaxTokens (document_wrapper.cpp:379-442) called from JS as
\* getSyntaxTokens(a, lineEnd) where a is the number lineStart or not a number, on
\* a document highlighted as hl.
GetSyntaxTokensOp(a, lineStart, lineEnd, hl) ==
    /\ pc[HostThread] = "idle"
    /\ m_document # "unset"
    /\ lastOp' =
         IF m_document = "null"
         THEN [NoOp EXCEPT !.op = "getSyntaxTokens", !.docNull = TRUE, !.kind = "Error",
                           !.msg = "Document not initialized", !.value = "null",
                           !.orig = buf]
         ELSE IF a.type # "number"
         THEN [NoOp EXCEPT !.op = "getSyntaxTokens", !.kind = "TypeError",
                           !.msg = "Expected lineStart and lineEnd as numbers",
                           !.value = "null", !.arg = a, !.orig = buf]
         ELSE [NoOp EXCEPT !.op = "getSyntaxTokens", !.kind = "value", !.value = "array",
                           !.arg = a, !.nums = <<lineStart, lineEnd>>, !.hl = hl,
                           !.orig = buf,
                           !.out = TokensFrom(buf, hl, lineStart, lineEnd)]
    /\ UNCHANGED <<scan, rtVars, g_qtMutex, shutdownSeen, pc, ctor, ret, m_document, buf, ra,
                   tickSaw>>

\* ------------------------------------------------------- indentation
\* (mutant) a tab counts as one column.
OneColumn(ch) == 1
\* document_wrapper.cpp:699-702  a space counts 1, a tab 4.
ColumnsOf(ch) == IF ch = " " THEN 1 ELSE 4

\* document_wrapper.cpp:696-706  the loop of GetIndentation from index i (0-based).
RECURSIVE Indentation(_, _)
Indentation(lineText, i) ==
    IF i >= Len(lineText) THEN 0
    ELSE IF lineText[i + 1] \in {" ", "\t"}
    THEN ColumnsOf(lineText[i + 1]) + Indentation(lineText, i + 1)
    ELSE 0

\* DocumentWrapper::GetIndentation (document_wrapper.cpp:675-712) called from JS as
\* getIndentation(line).
GetIndentationOp(line) ==
    /\ pc[HostThread] = "idle"
    /\ m_document # "unset"
    /\ lastOp' =
         IF m_document = "null"
         THEN [NoOp EXCEPT !.op = "getIndentation", !.docNull = TRUE,
                           !.kind = "TypeError", !.msg = "Document not initialized",
                           !.value = "0", !.orig = buf]
         ELSE [NoOp EXCEPT !.op = "getIndentation", !.kind = "value", !.value = "number",
                           !.nums = <<line>>, !.orig = buf,
                           !.count = IF line < 0 \/ line >= Len(buf) THEN 0
                                     ELSE Indentation(LineOf(buf, line), 0)]
    /\ UNCHANGED <<scan, rtVars, g_qtMutex, shutdownSeen, pc, ctor, ret, m_document, buf, ra,
                   tickSaw>>

\* QChar::isSpace for the characters of the model (document_wrapper.cpp:740).
IsSpace(ch) == ch \in {" ", "\t"}

\* document_wrapper.cpp:737-744  textStart: the index of the first character that is
\* not a space, 0 when the loop finds none.
TextStart(lineText) ==
    LET S == {i \in 0..(Len(lineText) - 1) : ~IsSpace(lineText[i + 1])}
    IN IF S = {} THEN 0 ELSE Min(S)

\* QString(n, ' ') (document_wrapper.cpp:747): n spaces, none for n <= 0.
Spaces(n) == [i \in 1..n |-> " "]

\* DocumentWrapper::SetIndentation (document_wrapper.cpp:714-754) called from JS as
\* setIndentation(line, spaces).
SetIndentationOp(line, spaces) ==
    /\ pc[HostThread] = "idle"
    /\ m_document # "unset"
    /\ IF m_document = "null"
       THEN /\ lastOp' = [NoOp EXCEPT !.op = "setIndentation", !.docNull = TRUE,
                                      !.kind = "TypeError",
                                      !.msg = "Document not initialized", !.orig = buf]
            /\ buf' = buf
       ELSE /\ lastOp' = [NoOp EXCEPT !.op = "setIndentation", !.kind = "void",
                                      !.nums = <<line, spaces>>, !.orig = buf]
            /\ buf' = IF line < 0 \/ line >= Len(buf) THEN buf
                      ELSE LET lineText == LineOf(buf, line)
                               newText == Spaces(spaces)
                                          \o SubSeq(lineText, TextStart(lineText) + 1,
                                                    Len(lineText))
                           IN ReplaceText(buf, line, 0, Len(lineText), newText).buf
    /\ UNCHANGED <<scan, rtVars, g_qtMutex, shutdownSeen, pc, ctor, ret, m_document, ra, tickSaw>>

\* ----------------------------------------------- coordinate-taking handlers
\* DocumentWrapper::GetLine (document_wrapper.cpp:141-161) called from JS as
\* line(lineNum): the text m_document->line gives, which is empty for a line the
\* document does not have.
GetLineOp(lineNum) ==
    /\ pc[HostThread] = "idle"
    /\ m_document # "unset"
    /\ lastOp' =
         IF m_document = "null"
         THEN [NoOp EXCEPT !.op = "line", !.docNull = TRUE, !.kind = "Error",
                           !.msg = "Document not initialized", !.value = "null",
                           !.orig = buf]
         ELSE [NoOp EXCEPT !.op = "line", !.kind = "value", !.value = "string",
                           !.nums = <<lineNum>>, !.orig = buf,
                           !.out = <<LineOf(buf, lineNum)>>]
    /\ UNCHANGED <<scan, rtVars, g_qtMutex, shutdownSeen, pc, ctor, ret, m_document, buf, ra,
                   tickSaw>>

\* DocumentWrapper::InsertText (document_wrapper.cpp:163-184) called from JS as
\* insertText(line, column, text) for a line of the document, column >= 0 and a
\* text without line breaks; the handler returns nothing and drops what
\* m_document->insertText returns.
InsertTextOp(line, column, text) ==
    /\ pc[HostThread] = "idle"
    /\ m_document # "unset"
    /\ IF m_document = "null"
       THEN /\ lastOp' = [NoOp EXCEPT !.op = "insertText", !.docNull = TRUE,
                                      !.kind = "Error",
                                      !.msg = "Document not initialized", !.orig = buf]
            /\ buf' = buf
       ELSE /\ lastOp' = [NoOp EXCEPT !.op = "insertText", !.kind = "void",
                                      !.nums = <<line, column>>, !.repl = text,
                                      !.orig = buf]
            /\ buf' = ReplaceText(buf, line, column, 0, text).buf
    /\ UNCHANGED <<scan, rtVars, g_qtMutex, shutdownSeen, pc, ctor, ret, m_document, ra, tickSaw>>

\* DocumentWrapper::RemoveText (document_wrapper.cpp:186-214) called from JS as
\* removeText(line, startColumn, line, endColumn) for a line of the document and
\* 0 <= startColumn <= endColumn; the handler returns nothing.
RemoveTextOp(line, startColumn, endColumn) ==
    /\ pc[HostThread] = "idle"
    /\ m_document # "unset"
    /\ IF m_document = "null"
       THEN /\ lastOp' = [NoOp EXCEPT !.op = "removeText", !.docNull = TRUE,
                                      !.kind = "Error",
                                      !.msg = "Document not initialized", !.orig = buf]
            /\ buf' = buf
       ELSE /\ lastOp' = [NoOp EXCEPT !.op = "removeText", !.kind = "void",
                                      !.nums = <<line, startColumn, endColumn - startColumn>>,
                                      !.orig = buf]
            /\ buf' = ReplaceText(buf, line, startColumn, endColumn - startColumn, <<>>).buf
    /\ UNCHANGED <<scan, rtVars, g_qtMutex, shutdownSeen, pc, ctor, ret, m_document, ra, tickSaw>>

\* DocumentWrapper::Replace (document_wrapper.cpp:586-613) called from JS as
\* replace(line, column, length, replacement) for a line of the document,
\* column >= 0 and length >= 0: the result is what replaceText returns.
ReplaceOp(line, column, length, replacement) ==
    /\ pc[HostThread] = "idle"
    /\ m_document # "unset"
    /\ IF m_document = "null"
       THEN /\ lastOp' = [NoOp EXCEPT !.op = "replace", !.docNull = TRUE,
                                      !.kind = "TypeError",
                                      !.msg = "Document not initialized",
                                      !.value = "false", !.orig = buf]
            /\ buf' = buf
       ELSE LET r == ReplaceText(buf, line, column, length, replacement) IN
            /\ lastOp' = [NoOp EXCEPT !.op = "replace", !.kind = "value",
                                      !.value = IF r.ok THEN "true" ELSE "false",
                                      !.nums = <<line, column, length>>,
                                      !.repl = replacement, !.orig = buf]
            /\ buf' = r.buf
    /\ UNCHANGED <<scan, rtVars, g_qtMutex, shutdownSeen, pc, ctor, ret, m_document, ra, tickSaw>>

\* ------------------------------------------------------------- folding
\* document_wrapper.cpp:456  const int MAX_LINES
MAX_LINES == 50000

\* What foldingRegionAt returns: a range from line start to line end, or the
\* invalid range.
FoldRange(start, end) == [valid |-> TRUE, start |-> start, end |-> end]
NoFold == [valid |-> FALSE, start |-> -1, end |-> -1]

\* document_wrapper.cpp:457  maxLine = qMin(m_document->lines(), MAX_LINES)
MaxLine(b) == IF Len(b) < MAX_LINES THEN Len(b) ELSE MAX_LINES

\* m_document->foldingRegionAt(Cursor(line, 0)) (document_wrapper.cpp:465): the
\* folding engine's answer is folds.at[line] for the lines folds.at lists and
\* folds.else for the others.
FoldingRegionAt(folds, line) ==
    IF line \in DOMAIN folds.at THEN folds.at[line] ELSE folds.else
\* m_document->isLineVisible(line) (document_wrapper.cpp:463)
IsLineVisible(hidden, line) == line \notin hidden

\* (mutant) a region is appended for every valid answer.
EmitsAnyValid(folds, hidden, line) ==
    IsLineVisible(hidden, line) /\ FoldingRegionAt(folds, line).valid
\* document_wrapper.cpp:463-467  the scan of line `line` appends a region.
EmitsRegion(folds, hidden, line) ==
    /\ IsLineVisible(hidden, line)
    /\ FoldingRegionAt(folds, line).valid
    /\ FoldingRegionAt(folds, line).start = line

\* document_wrapper.cpp:468-475
Region(fold) == [startLine |-> fold.start, endLine |-> fold.end, kind |-> "region"]

\* The elements of a set of numbers in ascending order.
RECURSIVE Ascending(_)
Ascending(S) == IF S = {} THEN <<>> ELSE <<Min(S)>> \o Ascending(S \ {Min(S)})

\* document_wrapper.cpp:461-478  the loop over the lines 0..maxLine-1 appends, in
\* ascending order of line, a region for every line that emits one.
FoldingRegions(b, folds, hidden) ==
    LET starts == Ascending({line \in 0..(MaxLine(b) - 1) :
                                EmitsRegion(folds, hidden, line)})
    IN [i \in 1..Len(starts) |-> Region(FoldingRegionAt(folds, starts[i]))]

\* document_wrapper.cpp:463-465  the lines foldingRegionAt is asked about.
FoldQueries(b, hidden) == {line \in 0..(MaxLine(b) - 1) : IsLineVisible(hidden, line)}

\* DocumentWrapper::GetFoldingRegions (document_wrapper.cpp:444-485) on a document
\* whose folding is folds and whose hidden lines are hidden.
GetFoldingRegionsOp(folds, hidden) ==
    /\ pc[HostThread] = "idle"
    /\ m_document # "unset"
    /\ lastOp' =
         IF m_document = "null"
         THEN [NoOp EXCEPT !.op = "getFoldingRegions", !.docNull = TRUE,
                           !.kind = "Error", !.msg = "Document not initialized",
                           !.value = "null", !.orig = buf]
         ELSE [NoOp EXCEPT !.op = "getFoldingRegions", !.kind = "value",
                           !.value = "array", !.orig = buf, !.folds = folds,
                           !.hidden = hidden,
                           !.out = FoldingRegions(buf, folds, hidden),
                           !.queried = FoldQueries(buf, hidden)]
    /\ UNCHANGED <<scan, rtVars, g_qtMutex, shutdownSeen, pc, ctor, ret, m_document, buf, ra,
                   tickSaw>>

\* ---------------------------------------------------------- specifications
\* The process after the addon is loaded and before anything is called; the one
\* document the host makes gets the text "aa" and is searched for "a".
SpecText == << <<"a", "a">> >>
SpecPattern == <<"a">>
SpecReplacement == <<"b">>

Init ==
    /\ g_app = 0
    /\ g_qtThread = 0
    /\ g_qtMutex = 0
    /\ g_qtRunning = FALSE
    /\ rt = [t \in Threads |-> "unborn"]
    /\ timerArmed = FALSE
    /\ quitFlag = FALSE
    /\ startLog = <<>>
    /\ shutdownSeen = FALSE
    /\ pc = [c \in Callers |-> "idle"]
    /\ ctor = FALSE
    /\ ret = [c \in Callers |-> NoRet]
    /\ m_document = "unset"
    /\ buf = <<>>
    /\ ra = NoRa
    /\ lastOp = NoOp
    /\ scan = NoScan
    /\ tickSaw = "none"

\* A thread calls into the bridge.
CallStart(c) == InitCall(c) \/ ShutCall(c) \/ IsRunCall(c) \/ ProcessEvents(c)

\* A bridge call in progress takes its next step.
CallProgress(c) ==
    \/ InitAlready(c) \/ InitSpawn(c) \/ InitWaitDone(c)
    \/ ShutNoop(c) \/ ShutQuit(c) \/ ShutJoin(c)
    \/ IsRunAcquire(c) \/ IsRunReturn(c)

\* The host thread calls a document operation.
HostCall ==
    \/ CtorCall
    \/ SetTextOp(SpecText)
    \/ RaBegin(SpecPattern, SpecReplacement, DefaultOpts)

\* A document operation in progress takes its next step.
HostProgress == CtorCreate \/ RaStep \/ RaReturn

\* The runtime thread runs the next statement of its function.
RtProgress(t) ==
    \/ RtConstruct(t) \/ RtConstructFail(t) \/ RtArmTimer(t) \/ RtPublish(t)
    \/ RtEnterExec(t) \/ RtExecReturn(t) \/ RtDeleteApp(t) \/ RtClearRunning(t)

Next ==
    \/ \E c \in Callers : CallStart(c) \/ CallProgress(c)
    \/ HostCall
    \/ HostProgress
    \/ \E t \in Threads : RtProgress(t) \/ Tick(t)

Spec == Init /\ [][Next]_vars

\* The operating system schedules every thread: a call in progress and the runtime
\* thread take their next step when it stays possible.  Nothing obliges a thread to
\* start a new call.
FairSpec ==
    /\ Spec
    /\ \A c \in Callers : WF_vars(CallProgress(c))
    /\ WF_vars(HostProgress)
    /\ \A t \in Threads : WF_vars(RtProgress(t))

\* A document as the host thread has it after the addon was loaded (Init,
\* addon.cpp:11-17), the document was constructed and its text was set: the
\* runtime thread is in its event loop, no call is in progress.
Chars == {"a", "A", " "}
LinesUpTo(n) == UNION {[1..k -> Chars] : k \in 0..n}
ExampleLine == <<"f", "o", "o", "b", "a", "r", " ", "f", "o", "o", " ", "b", "a", "z">>
OverlapLine == <<"a", "a", " ", "a", " ", "a">>
Buffers ==
    {<<l>> : l \in LinesUpTo(MaxLen)}
    \cup {<<l1, l2>> : l1 \in LinesUpTo(MaxLen - 2), l2 \in LinesUpTo(MaxLen - 2)}
    \cup {<<ExampleLine>>, <<OverlapLine>>}
Patterns == LinesUpTo(MaxLen - 1) \cup {<<"f", "o", "o">>, <<"a", " ", "a">>}
Replacements == {<<>>, <<"b">>, <<"a", "a">>}
Options == [caseSensitive : BOOLEAN, wholeWords : BOOLEAN, regex : BOOLEAN]

DocInit ==
    /\ g_app = 1
    /\ g_qtThread = 1
    /\ g_qtMutex = 0
    /\ g_qtRunning = TRUE
    /\ rt = [t \in Threads |-> IF t = 1 THEN "exec" ELSE "unborn"]
    /\ timerArmed = TRUE
    /\ quitFlag = FALSE
    /\ startLog = <<"app", "timer", "running">>
    /\ shutdownSeen = FALSE
    /\ pc = [c \in Callers |-> "idle"]
    /\ ctor = FALSE
    /\ ret = [c \in Callers |-> NoRet]
    /\ m_document \in {"doc", "null"}
    /\ buf \in (IF m_document = "doc" THEN Buffers ELSE {<< <<>> >>})
    /\ ra = NoRa
    /\ lastOp = NoOp
    /\ scan = NoScan
    /\ tickSaw = "none"

\* No document operation has been called yet.
Fresh == lastOp.op = "none" /\ pc[HostThread] = "idle"

\* The host thread calls one operation on the document.
DocNext ==
    \/ Fresh /\ \E op \in GuardedOps : GuardedOp(op)
    \/ Fresh /\ \E text \in {SpecText} : SetTextOp(text)
    \/ Fresh /\ \E p \in Patterns, o \in Options : SearchOp(StrArg(p), o)
    \/ Fresh /\ \E o \in Options : SearchOp(NumArg, o)
    \/ Fresh /\ \E p \in Patterns, r \in Replacements, o \in Options :
                  ~o.regex /\ RaBegin(p, r, o)
    \/ RaStep
    \/ RaReturn

DocSpec == DocInit /\ [][DocNext]_vars

\* The runtime thread is in its event loop and no bridge call is in progress
\* (the state Init reaches when Initialize has returned, addon.cpp:13).
RuntimeUp ==
    /\ g_app = 1
    /\ g_qtThread = 1
    /\ g_qtMutex = 0
    /\ g_qtRunning = TRUE
    /\ rt = [t \in Threads |-> IF t = 1 THEN "exec" ELSE "unborn"]
    /\ timerArmed = TRUE
    /\ quitFlag = FALSE
    /\ startLog = <<"app", "timer", "running">>
    /\ shutdownSeen = FALSE
    /\ pc = [c \in Callers |-> "idle"]
    /\ ctor = FALSE
    /\ ret = [c \in Callers |-> NoRet]
    /\ ra = NoRa
    /\ lastOp = NoOp
    /\ scan = NoScan
    /\ tickSaw = "none"

\* Documents for the tokenizer: only the lengths of the lines matter to it.  One
\* line is one column longer than the scan bound.
Attrs == {"", "Keyword", "String"}
LineOfLength(n) == [i \in 1..n |-> "a"]
LongLine == LineOfLength(MAX_SCAN_LENGTH + 1)
TokBuffers ==
    {<<LineOfLength(n)>> : n \in 0..MaxLen}
    \cup {<<LineOfLength(n), LineOfLength(m)>> : n \in 0..(MaxLen - 1), m \in 0..(MaxLen - 1)}
    \cup {<<LongLine>>}
\* Highlightings of the long line: none; a keyword of 1500 columns; a string up to
\* the last scanned column, which starts a keyword.
LongHls ==
    {[i \in 1..(MAX_SCAN_LENGTH + 1) |-> ""],
     [i \in 1..(MAX_SCAN_LENGTH + 1) |-> IF i <= RunLimit + 500 THEN "Keyword" ELSE ""],
     [i \in 1..(MAX_SCAN_LENGTH + 1) |-> IF i >= MAX_SCAN_LENGTH THEN "Keyword" ELSE "String"]}
\* The highlightings of a document: an attribute for every column of every line.
HlOf(b) ==
    IF b = <<LongLine>> THEN {<<h>> : h \in LongHls}
    ELSE {h \in [1..Len(b) -> UNION {[1..n -> Attrs] : n \in 0..MaxLen}] :
            \A l \in 1..Len(b) : Len(h[l]) = Len(b[l])}
LineArgs == -1..2

TokInit ==
    /\ RuntimeUp
    /\ m_document \in {"doc", "null"}
    /\ buf \in (IF m_document = "doc" THEN TokBuffers ELSE {<< <<>> >>})

\* The host thread asks once for the tokens of a range of lines.
TokNext ==
    \/ Fresh /\ \E lineStart \in LineArgs, lineEnd \in LineArgs, hl \in HlOf(buf) :
                  GetSyntaxTokensOp(NumArg, lineStart, lineEnd, hl)
    \/ Fresh /\ \E hl \in HlOf(buf) : GetSyntaxTokensOp(StrArg(<<>>), 0, 0, hl)

TokSpec == TokInit /\ [][TokNext]_vars

\* Documents for the indentation handlers: lines of spaces, tabs and a letter, and
\* the line "\t  x".
IndentChars == {" ", "\t", "x"}
IndentLinesUpTo(n) == UNION {[1..k -> IndentChars] : k \in 0..n}
TabLine == <<"\t", " ", " ", "x">>
IndentBuffers ==
    {<<l>> : l \in IndentLinesUpTo(MaxLen)}
    \cup {<<l1, l2>> : l1 \in IndentLinesUpTo(MaxLen - 2), l2 \in IndentLinesUpTo(MaxLen - 2)}
    \cup {<<TabLine>>}
Widths == -1..2

IndentInit ==
    /\ RuntimeUp
    /\ m_document \in {"doc", "null"}
    /\ buf \in (IF m_document = "doc" THEN IndentBuffers ELSE {<< <<>> >>})

\* The host thread sets the indentation of a line, or reads one, or reads one after
\* it has set one.
IndentNext ==
    \/ Fresh /\ \E line \in LineArgs, spaces \in Widths : SetIndentationOp(line, spaces)
    \/ /\ pc[HostThread] = "idle" /\ lastOp.op \in {"none", "setIndentation"}
       /\ \E line \in LineArgs : GetIndentationOp(line)

IndentSpec == IndentInit /\ [][IndentNext]_vars

\* Columns and lengths the host passes, some past the end of every line.
ColumnArgs == 0..(MaxLen + 1)
LengthArgs == 0..2
LinesOfDoc == 0..(Len(buf) - 1)

CoordInit ==
    /\ RuntimeUp
    /\ m_document \in {"doc", "null"}
    /\ buf \in (IF m_document = "doc" THEN Buffers ELSE {<< <<>> >>})

\* The host thread calls one coordinate-taking operation.
CoordNext ==
    \/ Fresh /\ \E lineNum \in LineArgs : GetLineOp(lineNum)
    \/ Fresh /\ \E line \in LinesOfDoc, column \in ColumnArgs, text \in Replacements :
                  InsertTextOp(line, column, text)
    \/ Fresh /\ \E line \in LinesOfDoc, column \in ColumnArgs, length \in LengthArgs :
                  RemoveTextOp(line, column, column + length)
    \/ Fresh /\ \E line \in LinesOfDoc, column \in ColumnArgs, length \in LengthArgs,
                    r \in Replacements : ReplaceOp(line, column, length, r)

CoordSpec == CoordInit /\ [][CoordNext]_vars

\* Documents for the fold scanner: up to MaxLen empty lines, and one document of
\* one line more than the scan bound.
EmptyLines(n) == [i \in 1..n |-> <<>>]
BigBuffer == EmptyLines(MAX_LINES + 1)
FoldBuffers == {EmptyLines(n) : n \in 1..MaxLen} \cup {BigBuffer}
\* What the folding engine may answer in a document of n lines.
FoldsOf(n) ==
    {NoFold} \cup {f \in {FoldRange(st, en) : st \in 0..(n - 1), en \in 0..(n - 1)} :
                      f.start <= f.end}
\* The folding of the big document: a region over all of it, one starting on the
\* last scanned line, one starting on the first line that is not scanned.
BigFolds ==
    [at |-> [line \in {0, MAX_LINES - 1, MAX_LINES} |->
                IF line = 0 THEN FoldRange(0, MAX_LINES)
                ELSE IF line = MAX_LINES - 1 THEN FoldRange(MAX_LINES - 1, MAX_LINES)
                ELSE FoldRange(MAX_LINES, MAX_LINES)],
     else |-> NoFold]
FoldingsOf(b) ==
    IF b = BigBuffer THEN {BigFolds}
    ELSE {[at |-> f, else |-> NoFold] : f \in [0..(Len(b) - 1) -> FoldsOf(Len(b))]}
HiddenOf(b) ==
    IF b = BigBuffer THEN {{}} ELSE SUBSET (0..(Len(b) - 1))

FoldInit ==
    /\ RuntimeUp
    /\ m_document \in {"doc", "null"}
    /\ buf \in (IF m_document = "doc" THEN FoldBuffers ELSE {<< <<>> >>})

\* The host thread asks once for the folding regions.
FoldNext ==
    Fresh /\ \E folds \in FoldingsOf(buf), hidden \in HiddenOf(buf) :
                GetFoldingRegionsOp(folds, hidden)

FoldSpec == FoldInit /\ [][FoldNext]_vars

\* Documents and patterns for the scan taken step by step: lines of a letter and a
\* blank, patterns from the empty one on.
ScanChars == {"a", " "}
ScanLinesUpTo(n) == UNION {[1..k -> ScanChars] : k \in 0..n}
ScanBuffers ==
    {<<l>> : l \in ScanLinesUpTo(MaxLen)}
    \cup {<<l1, l2>> : l1 \in ScanLinesUpTo(MaxLen - 2), l2 \in ScanLinesUpTo(MaxLen - 2)}
    \cup {<<OverlapLine>>}
ScanPatterns == ScanLinesUpTo(MaxLen - 1)
LiteralOptions == {o \in Options : ~o.regex}

ScanInit ==
    /\ RuntimeUp
    /\ m_document \in {"doc", "null"}
    /\ buf \in (IF m_document = "doc" THEN ScanBuffers ELSE {<< <<>> >>})

\* The host thread calls search or replaceAll once; the call runs its loops.
ScanNext ==
    \/ Fresh /\ \E p \in ScanPatterns, o \in LiteralOptions : ScanBegin(p, o)
    \/ ScanStep
    \/ ScanReturn
    \/ Fresh /\ \E p \in ScanPatterns, r \in Replacements, o \in LiteralOptions :
                  RaBegin(p, r, o)
    \/ RaStep
    \/ RaReturn

\* A call in progress on the host thread takes its next step.
ScanProgress == ScanStep \/ ScanReturn \/ RaStep \/ RaReturn

\* The host thread keeps running the call it is in.
ScanSpec == ScanInit /\ [][ScanNext]_vars /\ WF_vars(ScanProgress)

\* ------------------------------------------------------------------ claims
InitReturned(c) == ret[c].op = "Initialize"
StartOrder == <<"app", "timer", "running">>

\* C1: concurrent Initialize calls from the not-running state start one runtime
\* thread and one application object, and every caller finds the runtime running
\* when its Initialize returns; no Initialize call, from whatever caller, starts a
\* runtime thread while another one exists.
C1_OneRuntime ==
    /\ Cardinality(Alive(rt)) <= 1
    /\ ~shutdownSeen => ThreadsStarted <= 1
    /\ \A c \in Callers :
         InitReturned(c) => ret[c].running /\ Cardinality(ret[c].live) = 1

\* C1 witness: two callers have returned from Initialize, one having started the
\* thread and the other having found it started, with one thread ever started.
C1_Witness ==
    /\ ThreadsStarted = 1 /\ ~shutdownSeen
    /\ \E c1 \in Callers, c2 \in Callers :
         /\ c1 # c2
         /\ InitReturned(c1) /\ ret[c1].flag
         /\ InitReturned(c2) /\ ~ret[c2].flag

\* Initialize returns only after the application object was constructed, the timer
\* armed and running published, in that order.
C2_BarrierAtReturn ==
    \A c \in Callers :
        InitReturned(c) =>
            ret[c].running /\ ret[c].app # 0 /\ ret[c].timer /\ ret[c].log = StartOrder

\* A document exists (so its operations can run), or is about to be created, only
\* with the runtime started, as long as no Shutdown has stopped it.
C2_DocAfterStart ==
    ((m_document # "unset" \/ pc[HostThread] = "ctor_create") /\ ~shutdownSeen)
        => (g_qtRunning /\ g_app # 0 /\ rt[g_app] \in {"l43", "exec"})

ShutdownReturned(c) == ret[c].op = "Shutdown"

\* C3: Shutdown called when the runtime is not running changes nothing; when
\* Shutdown returns, in either case, no runtime thread is left, the application
\* pointer is null and running is false.
C3_ShutdownIdempotent ==
    /\ [](\A c \in Callers :
            ShutdownReturned(c) =>
                ~ret[c].running /\ ret[c].app = 0 /\ ret[c].live = {})
    /\ [][\A c \in Callers :
            (pc[c] = "shut_lock" /\ pc'[c] = "idle" /\ ~g_qtRunning)
                => (ret'[c].flag /\ UNCHANGED <<rtVars, g_qtMutex, docVars>>)]_vars

\* C3 witness: one caller's Shutdown stopped the runtime, and another caller's
\* Shutdown after it found nothing to stop.
C3_Witness ==
    \E c1 \in Callers, c2 \in Callers :
        /\ ShutdownReturned(c1) /\ ~ret[c1].flag
        /\ ShutdownReturned(c2) /\ ret[c2].flag /\ ret[c2].stops

\* C4: no drain of the event queue (the timer's processEvents or a manual
\* ProcessEvents) runs between two steps of a document mutation.
C4_TickExcluded == tickSaw # "partial"

\* C5: every operation on a document whose m_document is null fails with the
\* not-initialized error; none returns a default value or does nothing.
C5_NotInitialized ==
    lastOp.docNull =>
        (lastOp.kind \in {"Error", "TypeError"} /\ lastOp.msg = "Document not initialized")

\* C6: when the runtime thread fails to construct the application object, the
\* Initialize call that started it does not wait forever.
C6_RuntimeUnavailable ==
    (\E t \in Threads : rt[t] = "failed") ~> (\A c \in Callers : pc[c] # "init_wait")

\* C7: IsRunning reads the flag with no transition under way: with the lock held by
\* IsRunning, running true means the application object exists and its thread has
\* not left the event loop, running false means no runtime thread exists; and the
\* runtime thread writes the flag only while an Initialize or a Shutdown call holds
\* the lock.
C7_NoMidTransition ==
    /\ \A c \in Callers :
         pc[c] = "isrun_held" =>
            /\ g_qtRunning => (g_app # 0 /\ rt[g_app] \in {"l43", "exec"})
            /\ ~g_qtRunning => Alive(rt) = {}
    /\ \A t \in Threads :
         rt[t] \in {"l40", "l48"} =>
            (g_qtMutex # 0 /\ pc[g_qtMutex] \in {"init_wait", "shut_join"})

\* C7 witness: IsRunning has returned true to one caller while the runtime ran, and
\* false to another after a Shutdown.
C7_Witness ==
    \E c1 \in Callers, c2 \in Callers :
        /\ ret[c1].op = "IsRunning" /\ ret[c1].flag /\ ret[c1].app # 0
        /\ ret[c2].op = "IsRunning" /\ ~ret[c2].flag /\ ret[c2].stops

ReplaceAllReturned == lastOp.op = "replaceAll" /\ lastOp.kind = "value"

\* The line with the occurrences of a pattern of length n that start at the columns
\* cols replaced, left to right, from column p on.
RECURSIVE Rebuild(_, _, _, _, _)
Rebuild(lineText, cols, n, repl, p) ==
    IF p >= Len(lineText) THEN <<>>
    ELSE IF p \in cols /\ p + n <= Len(lineText)
    THEN repl \o Rebuild(lineText, cols, n, repl, p + n)
    ELSE <<lineText[p + 1]>> \o Rebuild(lineText, cols, n, repl, p + 1)

MatchColumns(ms, line) == {ms[i].column : i \in {j \in 1..Len(ms) : ms[j].line = line}}

\* C8: for a non-empty literal pattern, every replacement of replaceAll is applied
\* to a span that still holds the occurrence the search found, the buffer ends as
\* the original with the found occurrences replaced, and the count is the number
\* of matches found.
C8_ReplaceAllPositions ==
    (ReplaceAllReturned /\ lastOp.arg.s # <<>>) =>
        /\ lastOp.held
        /\ lastOp.count = Len(lastOp.matches)
        /\ buf = [l \in 1..Len(lastOp.orig) |->
                    Rebuild(lastOp.orig[l], MatchColumns(lastOp.matches, l - 1),
                            Len(lastOp.arg.s), lastOp.repl, 0)]

\* C9: replaceAll(pattern, replacement, options) replaces the matches that
\* search(pattern, options) returns on the same buffer.
C9_SameMatchesAsSearch ==
    ReplaceAllReturned =>
        lastOp.matches = Search(<<lastOp.arg, ObjArg(lastOp.opts)>>, "doc", lastOp.orig).results

\* The pattern occurs in the line at column p as a whole word.
WholeWordAt(lineText, pat, cs, p) ==
    /\ p + Len(pat) <= Len(lineText)
    /\ \A i \in 1..Len(pat) : EqCh(lineText[p + i], pat[i], cs)
    /\ p = 0 \/ ~IsLetterOrNumber(lineText[p])
    /\ p + Len(pat) = Len(lineText) \/ ~IsLetterOrNumber(lineText[p + Len(pat) + 1])

\* C10: a literal search with wholeWords returns a match at (line, column) exactly
\* where the pattern occurs, under the chosen case sensitivity, between characters
\* that are not letters or digits (or the line's ends); every occurrence is
\* returned once, in document order, with the pattern's length.
C10_WholeWords ==
    (lastOp.op = "search" /\ lastOp.kind = "value" /\ lastOp.opts.wholeWords
        /\ ~lastOp.opts.regex) =>
        LET ms == lastOp.matches
            pat == lastOp.arg.s
            b == lastOp.orig
        IN /\ {<<ms[i].line, ms[i].column>> : i \in 1..Len(ms)}
                = UNION {{<<l - 1, p>> : p \in {q \in 0..Len(b[l]) :
                              WholeWordAt(b[l], pat, lastOp.opts.caseSensitive, q)}}
                         : l \in 1..Len(b)}
           /\ \A i \in 1..Len(ms) : ms[i].length = Len(pat)
           /\ \A i \in 1..Len(ms), j \in 1..Len(ms) :
                i < j => \/ ms[i].line < ms[j].line
                         \/ ms[i].line = ms[j].line /\ ms[i].column < ms[j].column

\* C10 witness: "foo" searched as a whole word in "foobar foo baz" gave one match,
\* at column 7.
C10_Witness ==
    /\ lastOp.op = "search" /\ lastOp.opts.wholeWords /\ ~lastOp.opts.regex
    /\ lastOp.orig = <<ExampleLine>>
    /\ lastOp.arg.s = <<"f", "o", "o">>
    /\ lastOp.matches = <<Match(0, 7, 3, <<"f", "o", "o">>)>>

TokensReturned == lastOp.op = "getSyntaxTokens" /\ lastOp.kind = "value"
\* The last line getSyntaxTokens(lineStart, lineEnd) looks at in a document b.
LastLine(b, lineEnd) == IF lineEnd < Len(b) - 1 THEN lineEnd ELSE Len(b) - 1
\* min(lineLength, 10000)
Scanned(lineText) == IF Len(lineText) < 10000 THEN Len(lineText) ELSE 10000

\* C11: the tokens getSyntaxTokens returns are non-empty, are ordered by line and
\* then by column, lie on lines of [lineStart, min(lineEnd, lineCount - 1)], and the
\* tokens of one line tile [0, min(lineLength, 10000)): the first starts at column
\* 0, each next one starts where the previous one ends, the last ends at
\* min(lineLength, 10000); every non-empty line of the range has tokens, an empty
\* line has none.
C11_TokensTile ==
    TokensReturned =>
        LET ts == lastOp.out
            b == lastOp.orig
            lineStart == lastOp.nums[1]
            lineEnd == lastOp.nums[2]
        IN /\ \A i \in 1..Len(ts) :
                /\ ts[i].startColumn < ts[i].endColumn
                /\ ts[i].line >= lineStart /\ ts[i].line >= 0
                /\ ts[i].line <= LastLine(b, lineEnd)
                /\ (i = 1 \/ ts[i - 1].line # ts[i].line) => ts[i].startColumn = 0
                /\ (i > 1 /\ ts[i - 1].line = ts[i].line) =>
                        ts[i].startColumn = ts[i - 1].endColumn
                /\ i > 1 => ts[i - 1].line <= ts[i].line
                /\ (i = Len(ts) \/ ts[i + 1].line # ts[i].line) =>
                        ts[i].endColumn = Scanned(b[ts[i].line + 1])
           /\ \A l \in lineStart..LastLine(b, lineEnd) :
                (l >= 0 /\ Len(b[l + 1]) > 0) <=> (\E i \in 1..Len(ts) : ts[i].line = l)

\* C11 witness: a line longer than the scan bound was tokenized into several tokens,
\* the last of which ends at column 10000.
C11_Witness ==
    /\ TokensReturned
    /\ Len(lastOp.orig[1]) > 10000
    /\ Len(lastOp.out) > 2
    /\ lastOp.out[Len(lastOp.out)].endColumn = 10000
    /\ lastOp.out[1].tokenType # lastOp.out[Len(lastOp.out)].tokenType

\* The attribute the highlighting gives the first column of token t.
AttrOfToken(t) == lastOp.hl[t.line + 1][t.startColumn + 1]

\* C17: every token spans at most 1000 columns within the first 10000 columns of
\* its line; all columns of a token carry one attribute, whose name is the
\* tokenType ("text" when there is no attribute); and two consecutive tokens of one
\* line carry the same attribute only if the first spans exactly 1000 columns.
C17_TokenBounds ==
    TokensReturned =>
        LET ts == lastOp.out IN
        \A i \in 1..Len(ts) :
            /\ ts[i].endColumn - ts[i].startColumn <= 1000
            /\ 0 <= ts[i].startColumn /\ ts[i].endColumn <= 10000
            /\ \A c \in ts[i].startColumn..(ts[i].endColumn - 1) :
                    lastOp.hl[ts[i].line + 1][c + 1] = AttrOfToken(ts[i])
            /\ ts[i].tokenType = (IF AttrOfToken(ts[i]) = "" THEN "text"
                                  ELSE AttrOfToken(ts[i]))
            /\ (i > 1 /\ ts[i - 1].line = ts[i].line
                      /\ AttrOfToken(ts[i - 1]) = AttrOfToken(ts[i])) =>
                    ts[i - 1].endColumn - ts[i - 1].startColumn = 1000

\* C17 witness: a keyword of 1500 columns came out as a token of 1000 columns and
\* one of 500, followed by a token of another type.
C17_Witness ==
    /\ TokensReturned
    /\ Len(lastOp.out) >= 3
    /\ lastOp.out[1] = Token(0, 0, 1000, "Keyword")
    /\ lastOp.out[2] = Token(0, 1000, 1500, "Keyword")
    /\ lastOp.out[3].tokenType = "text"

\* The line without its leading run of whitespace.
RECURSIVE StripLeading(_)
StripLeading(lineText) ==
    IF lineText # <<>> /\ lineText[1] \in {" ", "\t"} THEN StripLeading(Tail(lineText))
    ELSE lineText

\* The columns of the leading run of spaces and tabs, a space 1 and a tab 4.
RECURSIVE LeadingColumns(_)
LeadingColumns(lineText) ==
    IF lineText = <<>> THEN 0
    ELSE IF lineText[1] = " " THEN 1 + LeadingColumns(Tail(lineText))
    ELSE IF lineText[1] = "\t" THEN 4 + LeadingColumns(Tail(lineText))
    ELSE 0

SetIndentationDone(line, width) ==
    /\ lastOp.op = "setIndentation" /\ lastOp.kind = "void"
    /\ lastOp.nums = <<line, width>>

\* C12: after setIndentation(line, width) on a line of the document with
\* width >= 0, the line is width spaces followed by the original line without its
\* leading whitespace, whatever the line held (nothing or only whitespace
\* included), so that its indentation is width; the other lines are unchanged.
C12_SetIndentation ==
    \A line \in LineArgs, width \in Widths :
        (SetIndentationDone(line, width) /\ width >= 0
            /\ 0 <= line /\ line < Len(lastOp.orig)) =>
            /\ buf = [lastOp.orig EXCEPT ![line + 1] =
                        [i \in 1..width |-> " "] \o StripLeading(lastOp.orig[line + 1])]
            /\ LeadingColumns(buf[line + 1]) = width

GetIndentationReturned == lastOp.op = "getIndentation" /\ lastOp.kind = "value"

\* C13: getIndentation(line) returns 1 per space and 4 per tab of the leading run of
\* spaces and tabs of a line of the document, 0 and no error for a line outside
\* [0, lineCount); the buffer is as it was before the call.
C13_GetIndentation ==
    /\ GetIndentationReturned =>
        /\ lastOp.count = (IF lastOp.nums[1] < 0 \/ lastOp.nums[1] >= Len(lastOp.orig)
                           THEN 0
                           ELSE LeadingColumns(lastOp.orig[lastOp.nums[1] + 1]))
        /\ buf = lastOp.orig
    /\ (lastOp.op = "getIndentation" /\ ~lastOp.docNull) => lastOp.kind = "value"

\* C13 witness: getIndentation on "\t  x" returned 6.
C13_Witness ==
    /\ GetIndentationReturned
    /\ lastOp.orig = <<TabLine>> /\ lastOp.nums = <<0>>
    /\ lastOp.count = 6

\* The latest operation was a strict coordinate-taking one on a document, and its
\* coordinates are not within the document as it was: the line is outside
\* [0, lineCount), or the column or the end of the span is past the line's end.
OutOfRangeCall ==
    /\ lastOp.op \in {"line", "insertText", "removeText", "replace"}
    /\ ~lastOp.docNull
    /\ LET line == lastOp.nums[1] IN
       \/ line < 0 \/ line >= Len(lastOp.orig)
       \/ /\ lastOp.op # "line"
          /\ \/ lastOp.nums[2] < 0
             \/ lastOp.nums[2] > Len(lastOp.orig[line + 1])
             \/ /\ lastOp.op \in {"removeText", "replace"}
                /\ \/ lastOp.nums[3] < 0
                   \/ lastOp.nums[2] + lastOp.nums[3] > Len(lastOp.orig[line + 1])

\* C14: line, insertText, removeText and replace given coordinates outside the
\* document report a failure (an exception, or false from replace) and leave the
\* buffer as it was.
C14_OutOfRangeRejected ==
    OutOfRangeCall =>
        /\ \/ lastOp.kind \in {"Error", "TypeError"}
           \/ lastOp.op = "replace" /\ lastOp.value = "false"
        /\ buf = lastOp.orig

FoldingReturned == lastOp.op = "getFoldingRegions" /\ lastOp.kind = "value"
\* What the fold lookup at (L, 0) gave the latest getFoldingRegions.
FoldAnswer(L) ==
    IF L \in DOMAIN lastOp.folds.at THEN lastOp.folds.at[L] ELSE lastOp.folds.else

\* C15: getFoldingRegions returns a region starting on line L exactly for the lines
\* L below min(lineCount, 50000) that are visible and for which the fold lookup at
\* (L, 0) gives a valid range starting on L; the region carries that range's
\* lines, so there is one region per such line, the start lines strictly
\* increase, startLine <= endLine, and no line at or past the bound is looked up.
C15_FoldingRegions ==
    FoldingReturned =>
        LET rs == lastOp.out
            n == Len(lastOp.orig)
            bound == IF n < 50000 THEN n ELSE 50000
        IN /\ {rs[i].startLine : i \in 1..Len(rs)}
                = {L \in 0..(n - 1) : /\ L < bound
                                      /\ L \notin lastOp.hidden
                                      /\ FoldAnswer(L).valid
                                      /\ FoldAnswer(L).start = L}
           /\ \A i \in 1..Len(rs) :
                /\ rs[i].startLine <= rs[i].endLine
                /\ rs[i].endLine = FoldAnswer(rs[i].startLine).end
                /\ rs[i].kind = "region"
                /\ i > 1 => rs[i - 1].startLine < rs[i].startLine
           /\ \A L \in lastOp.queried : 0 <= L /\ L < bound

\* C15 witness: in a document of three visible lines where the lookup gives the
\* region 0..2 on lines 0 and 2 and the region 1..1 on line 1, the regions returned
\* are 0..2 and 1..1: none for line 2, which lies inside the first.
C15_Witness ==
    /\ FoldingReturned
    /\ Len(lastOp.orig) = 3 /\ lastOp.hidden = {}
    /\ FoldAnswer(0) = FoldRange(0, 2)
    /\ FoldAnswer(1) = FoldRange(1, 1)
    /\ FoldAnswer(2) = FoldRange(0, 2)
    /\ lastOp.out = <<Region(FoldRange(0, 2)), Region(FoldRange(1, 1))>>

\* C16: with every thread scheduled, a Shutdown call that found the runtime running
\* (so it was issued after Initialize returned), has requested quit and waits in
\* join eventually returns.
C16_ShutdownReturns ==
    \A c \in Callers : (pc[c] = "shut_join") ~> (pc[c] = "idle")

\* C18: every match search returns lies within its line, and its text is the part of
\* the line at [column, column + length) as the buffer holds it.
C18_MatchText ==
    (lastOp.op = "search" /\ lastOp.kind = "value") =>
        \A i \in 1..Len(lastOp.matches) :
            LET m == lastOp.matches[i]
                lineText == lastOp.orig[m.line + 1]
            IN /\ 0 <= m.column
               /\ m.column + m.length <= Len(lineText)
               /\ m.text = SubSeq(lineText, m.column + 1, m.column + m.length)

\* The literal scan is on a line of the document.
ScanOnLine == pc[HostThread] = "scan_loop" /\ scan.line < Len(buf)

\* The scan's start offset is at most the length of the line it is on.
ScanOffsetWithinLine == ScanOnLine => scan.startPos <= Len(buf[scan.line + 1])
\* The scan's start offset is at most one more than the length of the line it is on.
ScanOffsetBounded == ScanOnLine => scan.startPos <= Len(buf[scan.line + 1]) + 1

\* Every pass of the scan that stays on its line (a candidate was accepted or
\* rejected) moves the start offset forward.
ScanOffsetIncreases ==
    [][(ScanOnLine /\ pc'[HostThread] = "scan_loop" /\ scan'.line = scan.line)
            => scan'.startPos > scan.startPos]_vars

\* A step of replaceAll's loop takes the next match of the one search made at the
\* start and leaves the list of matches alone; the count returned is at most the
\* number of matches, each of which was attempted.
ReplaceAllOncePerMatch ==
    /\ [][(pc[HostThread] = "ra_loop" /\ pc'[HostThread] = "ra_loop")
            => (ra'.results = ra.results /\ ra'.i = ra.i - 1)]_vars
    /\ [][(pc[HostThread] = "ra_loop" /\ pc'[HostThread] = "idle") => ra.i = 0]_vars
    /\ [](ReplaceAllReturned => lastOp.count <= Len(lastOp.matches))

\* The call the host thread is in returns.
HostCallReturns == (pc[HostThread] # "idle") ~> (pc[HostThread] = "idle")

\* The matches a scan taken step by step returns are those of Search.
ScanAgrees ==
    (lastOp.op = "search" /\ lastOp.kind = "value") =>
        lastOp.matches = Search(<<lastOp.arg, ObjArg(lastOp.opts)>>, "doc", lastOp.orig).results

\* C19 as stated: search and replaceAll return for every buffer and pattern, the
\* literal scan's start offset grows on every pass and is at most the line's length,
\* and replaceAll attempts each match of its one search once and returns a count
\* that is at most their number.
C19_Original ==
    /\ []ScanOffsetWithinLine
    /\ ScanOffsetIncreases
    /\ ReplaceAllOncePerMatch
    /\ HostCallReturns

\* C19: search and replaceAll return for every buffer and pattern (the empty
\* pattern and wholeWords included), the literal scan's start offset grows on every
\* pass and is at most the line's length plus one, and replaceAll attempts each
\* match of its one search once and returns a count that is at most their number.
C19_Terminates ==
    /\ []ScanOffsetBounded
    /\ ScanOffsetIncreases
    /\ ReplaceAllOncePerMatch
    /\ HostCallReturns
    /\ []ScanAgrees

\* C19 witness: the scan for the empty pattern as a whole word on the line " " has
\* accepted the empty match at the end of the line, and its start offset is 2.
C19_Witness ==
    /\ pc[HostThread] = "scan_loop"
    /\ buf = << <<" ">> >> /\ scan.line = 0
    /\ scan.pat = <<>> /\ scan.opts.wholeWords
    /\ scan.results = <<Match(0, 0, 0, <<>>), Match(0, 1, 0, <<>>)>>
    /\ scan.startPos = 2
====
